---- MODULE Spec2Model ----
(***************************************************************************)
(* Real-time fan-out and presence core of InstantChatApp                   *)
(* (backend/controllers/socketController.js).                              *)
(*                                                                         *)
(* The state is the controller's two registry maps, the Socket.IO          *)
(* namespace (which sockets are connected, which rooms each socket id is   *)
(* in), the rows of the database the handlers read and write, and the      *)
(* handlers suspended at an await.  Every await on query() is a suspension *)
(* point: the action that follows it resolves the query and runs the       *)
(* handler up to its next await.                                           *)
(*                                                                         *)
(* Three variables observe the program: last describes the handler step    *)
(* that just ran (the request it completed and the emit calls it made, in  *)
(* call order), emitted is the sequence of conversation-room emits of the  *)
(* whole run, and received is, per socket, the room events sent to it.     *)
(***************************************************************************)
EXTENDS Integers, Sequences, FiniteSets, TLC

\* ---------------------------------------------------------------- bounds
MaxConns == 3          \* sockets that ever connect (ids 1..MaxConns)
MaxEvents == 2         \* inbound events (join, leave, send, disconnect) received
MaxPending == 2        \* handlers suspended at an await at the same time
MaxFailures == 1       \* store calls that fail

MaxExtra == 2          \* characters a content can have beyond the preview length

PreviewLen == 50       \* content.substring(0, 50)

Users == {"A", "B"}            \* rows of the users table
Ghost == "Z"                   \* a user id no row of users has
Convs == {"c1", "c2"}
NoUser == "-"
NoConv == "-"
Statuses == {"away", "offline"}   \* the status values a client sends with update_status
NoStatus == "-"

ConnIds == 1..MaxConns

\* --------------------------------------------------------------- payloads
Str(n) == [isString |-> TRUE, chars |-> [i \in 1..n |-> i % 7]]
NonString == [isString |-> FALSE, chars |-> <<>>]
Contents == {Str(2), NonString}
NoContent == Str(0)

Min(a, b) == IF a <= b THEN a ELSE b

\* a preview that is the whole content
Substring_Whole(s, n) == s

\* String.prototype.substring(0, n)
Substring(s, n) == [isString |-> TRUE, chars |-> SubSeq(s.chars, 1, Min(n, Len(s.chars)))]

\* handshake.auth.token: absent, not verifiable, or a signed token for a user id
Credentials == {[kind |-> "none", user |-> NoUser], [kind |-> "bad", user |-> NoUser]}
               \cup {[kind |-> "token", user |-> u] : u \in Users \cup {Ghost}}
NoCred == [kind |-> "unset", user |-> NoUser]

VARIABLES
    phase,        \* socket id -> "none" | "handshake" | "live" | "rejected" | "closed"
    auth,         \* socket id -> socket.handshake.auth.token
    sockUser,     \* socket id -> socket.userId
    activeUsers,  \* userId -> socketId (0: no entry)
    userSockets,  \* socketId -> userId (NoUser: no entry)
    rooms,        \* adapter: socket id -> set of rooms the id is in
    onlinePc,     \* socket id -> state of the connection handler's updateUserStatus
    discPc,       \* socket id -> position of the disconnect handler
    tasks,        \* the join_conversation / send_message handlers suspended at an await
    nreq,         \* number of inbound events received
    nfail,        \* number of store calls that failed
    participants, \* rows of conversation_participants
    messages,     \* rows of messages, in insertion order (id = index)
    updatedAt,    \* conversations.updated_at, as the number of updates
    userStatus,   \* users.status
    last,         \* the handler step that just ran
    emitted,      \* the emits to conversation rooms, in call order
    received      \* socket id -> the room events sent to that socket, in order

vars == <<phase, auth, sockUser, activeUsers, userSockets, rooms, onlinePc, discPc,
          tasks, nreq, nfail, participants, messages, updatedAt, userStatus,
          last, emitted, received>>

counters == <<nreq, nfail>>
store == <<participants, messages, updatedAt, userStatus>>
logs == <<emitted, received>>

ConvRoom(c) == [kind |-> "conversation", id |-> c]
UserRoom(u) == [kind |-> "user", id |-> u]

Live == {x \in ConnIds : phase[x] = "live"}

\* one emit call: the event and the sockets it is sent to
Emission(type, targets, c, m, u, b) ==
    [type |-> type, targets |-> targets, conv |-> c, msg |-> m, user |-> u, body |-> b]

RoomEvents == {"new_message", "message_notification"}

NoStep == [kind |-> "none", id |-> 0, conn |-> 0, conv |-> NoConv, content |-> NoContent,
           status |-> NoStatus, check |-> "pending", msg |-> 0, touched |-> FALSE,
           failed |-> "none", out |-> <<>>]

\* a fan-out that looks the users of the room's sockets up in the participants
RoomTargets_ParticipantsOnly(room, except) ==
    {y \in ConnIds : /\ room \in rooms[y] /\ phase[y] = "live" /\ y \notin except
                     /\ <<room.id, sockUser[y]>> \in participants}

\* a fan-out that ignores the room
RoomTargets_AllLive(room, except) ==
    {y \in ConnIds : phase[y] = "live" /\ y \notin except}

\* the adapter's fan-out: every socket id of the room that is still a connected
\* socket of the namespace, minus the excepted ids
RoomTargets(room, except) ==
    {y \in ConnIds : room \in rooms[y] /\ phase[y] = "live" /\ y \notin except}

\* a transport that hands the newest event over first
Deliver_Prepend(box, e) == <<[type |-> e.type, msg |-> e.msg]>> \o box

\* a transport that hands every event over twice
Deliver_Twice(box, e) ==
    box \o <<[type |-> e.type, msg |-> e.msg], [type |-> e.type, msg |-> e.msg]>>

\* what one emit call adds to the events a socket was sent
Deliver(box, e) == Append(box, [type |-> e.type, msg |-> e.msg])

RECURSIVE DeliverAll(_, _, _)
DeliverAll(box, y, out) ==
    IF out = <<>> THEN box
    ELSE LET e == Head(out)
             b == IF e.type \in RoomEvents /\ y \in e.targets THEN Deliver(box, e) ELSE box
         IN  DeliverAll(b, y, Tail(out))

RoomEmits(out) == SelectSeq(out, LAMBDA e : e.type \in RoomEvents)

\* the emit calls of a step reach the sockets
Sent(out) ==
    /\ emitted' = emitted \o [i \in 1..Len(RoomEmits(out)) |->
                                [type |-> RoomEmits(out)[i].type, msg |-> RoomEmits(out)[i].msg]]
    /\ received' = [y \in ConnIds |-> DeliverAll(received[y], y, out)]

isUserOnline(u) == activeUsers[u] # 0

Pending ==
    Cardinality({x \in ConnIds : phase[x] = "handshake"})
    + Cardinality({x \in ConnIds : onlinePc[x] = "pending"})
    + Cardinality({x \in ConnIds : discPc[x] = "status"})
    + Cardinality(tasks)

\* the outcomes of a store call: it fails while the failure budget lasts
Outcomes == IF nfail < MaxFailures THEN BOOLEAN ELSE {TRUE}

Init ==
    /\ phase = [x \in ConnIds |-> "none"]
    /\ auth = [x \in ConnIds |-> NoCred]
    /\ sockUser = [x \in ConnIds |-> NoUser]
    /\ activeUsers = [u \in Users |-> 0]
    /\ userSockets = [x \in ConnIds |-> NoUser]
    /\ rooms = [x \in ConnIds |-> {}]
    /\ onlinePc = [x \in ConnIds |-> "idle"]
    /\ discPc = [x \in ConnIds |-> "idle"]
    /\ tasks = {}
    /\ nreq = 0
    /\ nfail = 0
    /\ participants = {<<"c1", "A">>, <<"c1", "B">>, <<"c2", "A">>}
    /\ messages = <<>>
    /\ updatedAt = [c \in Convs |-> 0]
    /\ userStatus = [u \in Users |-> "offline"]
    /\ last = NoStep
    /\ emitted = <<>>
    /\ received = [x \in ConnIds |-> <<>>]

\* ------------------------------------------------------------- handshake
\* io.use middleware up to its await: a missing token and a token jwt.verify
\* rejects end in next(Error); a verified token issues the users query.
MiddlewareStart(cred) ==
    IF cred.kind = "token" THEN "handshake" ELSE "rejected"

Connect(x, cred) ==
    /\ phase[x] = "none"
    /\ \A y \in ConnIds : y < x => phase[y] # "none"
    /\ Pending < MaxPending
    /\ phase' = [phase EXCEPT ![x] = MiddlewareStart(cred)]
    /\ auth' = [auth EXCEPT ![x] = cred]
    /\ last' = NoStep
    /\ UNCHANGED <<sockUser, activeUsers, userSockets, onlinePc, discPc, rooms, tasks>>
    /\ UNCHANGED <<counters, store, logs>>

\* a middleware that does not look at the rows of the users query
MiddlewareAccepts_NoRowCheck(ok, u) == ok

\* the users query resolved: the middleware accepts only when a row came back
MiddlewareAccepts(ok, u) == ok /\ u \in Users

\* io.use after the await, and on next() the io.on('connection') handler
HandshakeDone(x, ok) ==
    /\ phase[x] = "handshake"
    /\ IF MiddlewareAccepts(ok, auth[x].user)
       THEN /\ phase' = [phase EXCEPT ![x] = "live"]
            /\ sockUser' = [sockUser EXCEPT ![x] = auth[x].user]
            /\ activeUsers' = [u \in Users |-> IF u = auth[x].user THEN x ELSE activeUsers[u]]
            /\ userSockets' = [userSockets EXCEPT ![x] = auth[x].user]
            /\ onlinePc' = [onlinePc EXCEPT ![x] = "pending"]
            /\ rooms' = [rooms EXCEPT ![x] = {UserRoom(auth[x].user)}]
       ELSE /\ phase' = [phase EXCEPT ![x] = "rejected"]
            /\ UNCHANGED <<sockUser, activeUsers, userSockets, onlinePc, rooms>>
    /\ nfail' = IF ok THEN nfail ELSE nfail + 1
    /\ last' = NoStep
    /\ UNCHANGED <<auth, discPc, tasks>>
    /\ UNCHANGED <<nreq, store, logs>>

\* updateUserStatus(userId, 'online') of the connection handler (not awaited)
OnlineStatusWrite(x, ok) ==
    /\ onlinePc[x] = "pending"
    /\ onlinePc' = [onlinePc EXCEPT ![x] = "done"]
    /\ userStatus' = IF ok THEN [userStatus EXCEPT ![sockUser[x]] = "online"] ELSE userStatus
    /\ nfail' = IF ok THEN nfail ELSE nfail + 1
    /\ last' = NoStep
    /\ UNCHANGED <<phase, auth, sockUser, activeUsers, userSockets, discPc, rooms, tasks>>
    /\ UNCHANGED <<nreq, participants, messages, updatedAt, logs>>

\* ------------------------------------------------------- inbound requests
\* Socket.IO dispatches an event only to the handlers of a connected socket
CanReceive(x) ==
    /\ phase[x] = "live"
    /\ nreq < MaxEvents
    /\ Pending < MaxPending

NewTask(kind, x, c, content) ==
    [id |-> nreq + 1, kind |-> kind, conn |-> x, conv |-> c, content |-> content,
     status |-> NoStatus, pc |-> "check", check |-> "pending", msg |-> 0, touched |-> FALSE]

\* the step that completes the handler t: what it did and the emit calls it made
Step(t, failed, out) ==
    [kind |-> t.kind, id |-> t.id, conn |-> t.conn, conv |-> t.conv, content |-> t.content,
     status |-> t.status, check |-> t.check, msg |-> t.msg, touched |-> t.touched,
     failed |-> failed, out |-> out]

\* SELECT 1 FROM conversation_participants WHERE conversation_id = $1 AND user_id = $2
ParticipantRows(c, u) == IF <<c, u>> \in participants THEN 1 ELSE 0

Checked(t, ok) ==
    [t EXCEPT !.check = IF ~ok THEN "failed"
                        ELSE IF ParticipantRows(t.conv, sockUser[t.conn]) > 0 THEN "found"
                        ELSE "none"]

\* socket.emit('error', ...) of a handler
ErrorTo(t) == Emission("error", {t.conn}, t.conv, 0, NoUser, NoContent)

\* socket.on('join_conversation') up to the await
JoinConversation(x, c) ==
    /\ CanReceive(x)
    /\ tasks' = tasks \cup {NewTask("join", x, c, NoContent)}
    /\ nreq' = nreq + 1
    /\ last' = NoStep
    /\ UNCHANGED <<phase, auth, sockUser, activeUsers, userSockets, onlinePc, discPc, rooms>>
    /\ UNCHANGED <<nfail, store, logs>>

\* a handler that joins without looking at the rows
JoinPermitted_Always(rows) == TRUE

\* participantResult.rows.length > 0
JoinPermitted(rows) == rows > 0

\* a join that takes a socket already in the room out of it
SocketJoin_Toggle(x, room) ==
    [rooms EXCEPT ![x] = IF room \in @ THEN @ \ {room} ELSE @ \cup {room}]

\* socket.join(room): the adapter adds the socket id to the room, whether or
\* not the socket is still connected
SocketJoin(x, room) == [rooms EXCEPT ![x] = @ \cup {room}]

\* socket.on('join_conversation') after the await
JoinCheck(t, ok) ==
    /\ t \in tasks
    /\ t.kind = "join"
    /\ tasks' = tasks \ {t}
    /\ nfail' = IF ok THEN nfail ELSE nfail + 1
    /\ LET x == t.conn
           c == t.conv
           d == Checked(t, ok)
       IN  IF ~ok
           THEN /\ last' = Step(d, "check", <<ErrorTo(t)>>)
                /\ UNCHANGED rooms
           ELSE IF JoinPermitted(ParticipantRows(c, sockUser[x]))
           THEN /\ rooms' = SocketJoin(x, ConvRoom(c))
                /\ last' = Step(d, "none",
                                <<Emission("conversation_joined", {x}, c, 0, NoUser, NoContent)>>)
           ELSE /\ last' = Step(d, "none", <<ErrorTo(t)>>)
                /\ UNCHANGED rooms
    /\ UNCHANGED <<phase, auth, sockUser, activeUsers, userSockets, onlinePc, discPc>>
    /\ UNCHANGED <<nreq, store, logs>>

\* a leave that drops every room of the socket
SocketLeave_AllRooms(x, room) == [rooms EXCEPT ![x] = {}]

\* socket.leave(room): the adapter removes the socket id from the room; a room
\* is the set of the ids in it, so a room nobody is in does not exist
SocketLeave(x, room) == [rooms EXCEPT ![x] = @ \ {room}]

\* socket.on('leave_conversation')
LeaveConversation(x, c) ==
    /\ phase[x] = "live"
    /\ nreq < MaxEvents
    /\ nreq' = nreq + 1
    /\ rooms' = SocketLeave(x, ConvRoom(c))
    /\ last' = [NoStep EXCEPT !.kind = "leave", !.conn = x, !.conv = c,
                              !.out = <<Emission("conversation_left", {x}, c, 0, NoUser,
                                                 NoContent)>>]
    /\ UNCHANGED <<phase, auth, sockUser, activeUsers, userSockets, onlinePc, discPc, tasks>>
    /\ UNCHANGED <<nfail, store, logs>>

\* socket.on('send_message') up to the first await
SendMessage(x, c, content) ==
    /\ CanReceive(x)
    /\ tasks' = tasks \cup {NewTask("send", x, c, content)}
    /\ nreq' = nreq + 1
    /\ last' = NoStep
    /\ UNCHANGED <<phase, auth, sockUser, activeUsers, userSockets, onlinePc, discPc, rooms>>
    /\ UNCHANGED <<nfail, store, logs>>

\* a handler that lets every sender through
SendRejected_Never(rows) == FALSE

\* participantResult.rows.length === 0
SendRejected(rows) == rows = 0

\* the participant check of send_message resolved
SendCheck(t, ok) ==
    /\ t \in tasks
    /\ t.kind = "send" /\ t.pc = "check"
    /\ nfail' = IF ok THEN nfail ELSE nfail + 1
    /\ LET d == Checked(t, ok)
       IN  IF ~ok
           THEN /\ last' = Step(d, "check", <<ErrorTo(t)>>)
                /\ tasks' = tasks \ {t}
           ELSE IF SendRejected(ParticipantRows(t.conv, sockUser[t.conn]))
           THEN /\ last' = Step(d, "none", <<ErrorTo(t)>>)
                /\ tasks' = tasks \ {t}
           ELSE /\ last' = NoStep
                /\ tasks' = (tasks \ {t}) \cup {[d EXCEPT !.pc = "insert"]}
    /\ UNCHANGED <<phase, auth, sockUser, activeUsers, userSockets, onlinePc, discPc, rooms>>
    /\ UNCHANGED <<nreq, store, logs>>

\* INSERT INTO messages ... RETURNING id, created_at resolved
SendInsert(t, ok) ==
    /\ t \in tasks
    /\ t.kind = "send" /\ t.pc = "insert"
    /\ nfail' = IF ok THEN nfail ELSE nfail + 1
    /\ LET id == Len(messages) + 1
       IN  IF ~ok
           THEN /\ last' = Step(t, "insert", <<ErrorTo(t)>>)
                /\ tasks' = tasks \ {t}
                /\ UNCHANGED messages
           ELSE /\ messages' = Append(messages, [id |-> id, conv |-> t.conv,
                                                 sender |-> sockUser[t.conn]])
                /\ tasks' = (tasks \ {t}) \cup {[t EXCEPT !.pc = "touch", !.msg = id]}
                /\ last' = NoStep
    /\ UNCHANGED <<phase, auth, sockUser, activeUsers, userSockets, onlinePc, discPc, rooms>>
    /\ UNCHANGED <<nreq, participants, updatedAt, userStatus, logs>>

\* an exclusion of every socket of the sender's user
NotificationExcept_User(x) == {y \in ConnIds : sockUser[y] = sockUser[x]}

\* the sockets message_notification is kept from: socket.to(...) excepts socket.id
NotificationExcept(x) == {x}

\* a broadcast that always echoes new_message to the sending socket
BroadcastOut_EchoToSender(t) ==
    <<Emission("new_message", RoomTargets(ConvRoom(t.conv), {}) \cup {t.conn}, t.conv, t.msg,
               sockUser[t.conn], t.content),
      Emission("message_notification",
               RoomTargets(ConvRoom(t.conv), NotificationExcept(t.conn)), t.conv, t.msg,
               sockUser[t.conn], Substring(t.content, PreviewLen))>>

\* a broadcast that notifies before it delivers the message
BroadcastOut_NotifyFirst(t) ==
    <<Emission("message_notification",
               RoomTargets(ConvRoom(t.conv), NotificationExcept(t.conn)), t.conv, t.msg,
               sockUser[t.conn], Substring(t.content, PreviewLen)),
      Emission("new_message", RoomTargets(ConvRoom(t.conv), {}), t.conv, t.msg,
               sockUser[t.conn], t.content)>>

\* io.to(room).emit('new_message') and socket.to(room).emit('message_notification');
\* content.substring throws when content is not a string, after new_message went
\* out, and the catch block then emits the error
BroadcastOut(t) ==
    LET x == t.conn
        c == t.conv
    IN  <<Emission("new_message", RoomTargets(ConvRoom(c), {}), c, t.msg, sockUser[x],
                   t.content)>>
        \o (IF t.content.isString
            THEN <<Emission("message_notification",
                            RoomTargets(ConvRoom(c), NotificationExcept(x)), c, t.msg,
                            sockUser[x], Substring(t.content, PreviewLen))>>
            ELSE <<ErrorTo(t)>>)

\* a handler that broadcasts without waiting for the conversation update
SendTouchOut_BroadcastAnyway(t, ok) == BroadcastOut(t)

\* a handler that emits only while its socket is connected
SendTouchOut_OnlyIfConnected(t, ok) ==
    IF phase[t.conn] # "live" THEN <<>>
    ELSE IF ok THEN BroadcastOut(t) ELSE <<ErrorTo(t)>>

\* a handler that broadcasts before it notices the failed update
SendTouchOut_NoAbort(t, ok) ==
    IF ok THEN BroadcastOut(t) ELSE BroadcastOut(t) \o <<ErrorTo(t)>>

\* the emit calls of send_message once the conversation update resolved: the
\* broadcast, or the catch block's error
SendTouchOut(t, ok) == IF ok THEN BroadcastOut(t) ELSE <<ErrorTo(t)>>

\* UPDATE conversations SET updated_at resolved, then the emits
SendTouch(t, ok) ==
    /\ t \in tasks
    /\ t.kind = "send" /\ t.pc = "touch"
    /\ nfail' = IF ok THEN nfail ELSE nfail + 1
    /\ tasks' = tasks \ {t}
    /\ updatedAt' = IF ok THEN [updatedAt EXCEPT ![t.conv] = @ + 1] ELSE updatedAt
    /\ LET d == [t EXCEPT !.touched = ok]
           out == SendTouchOut(d, ok)
       IN  /\ last' = Step(d, IF ~ok THEN "touch"
                              ELSE IF t.content.isString THEN "none" ELSE "substring", out)
           /\ Sent(out)
    /\ UNCHANGED <<phase, auth, sockUser, activeUsers, userSockets, onlinePc, discPc, rooms>>
    /\ UNCHANGED <<nreq, participants, messages, userStatus>>

\* ------------------------------------------------------- typing indicators
\* a typing fan-out that excepts nobody
TypingExcept_None(x) == {}

\* the sockets a typing event is kept from: socket.to(...) excepts socket.id
TypingExcept(x) == {x}

\* socket.to(`conversation_${conversationId}`).emit(type, {conversationId, userId})
TypingOut(type, x, c) ==
    <<Emission(type, RoomTargets(ConvRoom(c), TypingExcept(x)), c, 0, sockUser[x], NoContent)>>

\* socket.on('typing_start'): no query, no participant check, one emit
TypingStart(x, c) ==
    /\ phase[x] = "live"
    /\ nreq < MaxEvents
    /\ nreq' = nreq + 1
    /\ last' = [NoStep EXCEPT !.kind = "typing_start", !.conn = x, !.conv = c,
                              !.out = TypingOut("user_typing", x, c)]
    /\ UNCHANGED <<phase, auth, sockUser, activeUsers, userSockets, onlinePc, discPc, rooms,
                   tasks>>
    /\ UNCHANGED <<nfail, store, logs>>

\* socket.on('typing_stop')
TypingStop(x, c) ==
    /\ phase[x] = "live"
    /\ nreq < MaxEvents
    /\ nreq' = nreq + 1
    /\ last' = [NoStep EXCEPT !.kind = "typing_stop", !.conn = x, !.conv = c,
                              !.out = TypingOut("user_stopped_typing", x, c)]
    /\ UNCHANGED <<phase, auth, sockUser, activeUsers, userSockets, onlinePc, discPc, rooms,
                   tasks>>
    /\ UNCHANGED <<nfail, store, logs>>

\* ---------------------------------------------------------- status updates
\* socket.on('update_status') up to the await
UpdateStatus(x, s) ==
    /\ CanReceive(x)
    /\ tasks' = tasks \cup {[NewTask("status", x, NoConv, NoContent) EXCEPT !.status = s]}
    /\ nreq' = nreq + 1
    /\ last' = NoStep
    /\ UNCHANGED <<phase, auth, sockUser, activeUsers, userSockets, onlinePc, discPc, rooms>>
    /\ UNCHANGED <<nfail, store, logs>>

\* a status fan-out that skips the requesting socket (socket.broadcast.emit)
StatusTargets_Broadcast(x) == {y \in Live : y # x}

\* io.emit reaches every connected socket of the namespace
StatusTargets(x) == Live

\* the emit calls of update_status once UPDATE users resolved: io.emit of
\* user_status_changed, or nothing, as the catch block only logs
UpdateStatusOut(t, ok) ==
    IF ok THEN <<Emission("user_status_changed", StatusTargets(t.conn), NoConv, 0,
                          sockUser[t.conn], t.status)>>
    ELSE <<>>

\* a handler for which the status 'offline' also ends the user's presence
UpdateStatusDone_DropsPresence(t, ok) ==
    /\ t \in tasks
    /\ t.kind = "status"
    /\ tasks' = tasks \ {t}
    /\ nfail' = IF ok THEN nfail ELSE nfail + 1
    /\ userStatus' = IF ok THEN [userStatus EXCEPT ![sockUser[t.conn]] = t.status]
                     ELSE userStatus
    /\ activeUsers' = IF ok /\ t.status = "offline"
                      THEN [activeUsers EXCEPT ![sockUser[t.conn]] = 0]
                      ELSE activeUsers
    /\ last' = Step(t, IF ok THEN "none" ELSE "status", UpdateStatusOut(t, ok))
    /\ UNCHANGED <<phase, auth, sockUser, userSockets, onlinePc, discPc, rooms>>
    /\ UNCHANGED <<nreq, participants, messages, updatedAt, logs>>

\* UPDATE users SET status = $1 WHERE id = $2 resolved, then io.emit
UpdateStatusDone(t, ok) ==
    /\ t \in tasks
    /\ t.kind = "status"
    /\ tasks' = tasks \ {t}
    /\ nfail' = IF ok THEN nfail ELSE nfail + 1
    /\ userStatus' = IF ok THEN [userStatus EXCEPT ![sockUser[t.conn]] = t.status]
                     ELSE userStatus
    /\ last' = Step(t, IF ok THEN "none" ELSE "status", UpdateStatusOut(t, ok))
    /\ UNCHANGED <<phase, auth, sockUser, activeUsers, userSockets, onlinePc, discPc, rooms>>
    /\ UNCHANGED <<nreq, participants, messages, updatedAt, logs>>

\* ------------------------------------------------------ participant removal
\* the rows of conversation_participants with role 'admin': the creator of a
\* conversation
Admins == {<<"c1", "A">>, <<"c2", "A">>}

\* DELETE /api/conversations/:id/participants/:userId by user `by`, who has to be
\* a participant and either an admin or the removed user; the route runs two
\* queries and touches no socket. The step is the resolution of the DELETE.
RemoveParticipant(c, by, u, ok) ==
    /\ nreq < MaxEvents
    /\ <<c, by>> \in participants
    /\ <<c, by>> \in Admins \/ by = u
    /\ nreq' = nreq + 1
    /\ nfail' = IF ok THEN nfail ELSE nfail + 1
    /\ participants' = IF ok THEN participants \ {<<c, u>>} ELSE participants
    /\ last' = [NoStep EXCEPT !.kind = "remove_participant", !.conv = c,
                              !.failed = IF ok THEN "none" ELSE "delete"]
    /\ UNCHANGED <<phase, auth, sockUser, activeUsers, userSockets, onlinePc, discPc, rooms,
                   tasks>>
    /\ UNCHANGED <<messages, updatedAt, userStatus, logs>>

\* ------------------------------------------------------------ disconnect
\* a disconnect handler that forgets to delete the entry
ActiveUsersDelete_Never(au, u, x) == au

\* activeUsers.delete(socket.userId)
ActiveUsersDelete(au, u, x) == [au EXCEPT ![u] = 0]

\* Socket.IO closes the socket (it leaves all its rooms and the namespace) and
\* then fires 'disconnect'; the handler runs up to await updateUserStatus
Disconnect(x) ==
    /\ phase[x] = "live"
    /\ nreq < MaxEvents
    /\ Pending < MaxPending
    /\ nreq' = nreq + 1
    /\ phase' = [phase EXCEPT ![x] = "closed"]
    /\ rooms' = [rooms EXCEPT ![x] = {}]
    /\ activeUsers' = ActiveUsersDelete(activeUsers, sockUser[x], x)
    /\ userSockets' = [userSockets EXCEPT ![x] = NoUser]
    /\ discPc' = [discPc EXCEPT ![x] = "status"]
    /\ last' = NoStep
    /\ UNCHANGED <<auth, sockUser, onlinePc, tasks>>
    /\ UNCHANGED <<nfail, store, logs>>

\* the sockets the disconnect handler announces 'offline' to:
\* socket.broadcast.emit reaches every connected socket but the socket itself
OfflineTargets(x) == {y \in Live : y # x}

\* updateUserStatus(userId, 'offline') resolved (it swallows a store error), then
\* socket.broadcast.emit('user_status_changed', {status: 'offline'})
DisconnectStatus(x, ok) ==
    /\ discPc[x] = "status"
    /\ discPc' = [discPc EXCEPT ![x] = "done"]
    /\ userStatus' = IF ok THEN [userStatus EXCEPT ![sockUser[x]] = "offline"] ELSE userStatus
    /\ last' = [NoStep EXCEPT !.kind = "disconnect", !.conn = x,
                              !.failed = IF ok THEN "none" ELSE "status",
                              !.out = <<Emission("user_status_changed", OfflineTargets(x),
                                                 NoConv, 0, sockUser[x], "offline")>>]
    /\ nfail' = IF ok THEN nfail ELSE nfail + 1
    /\ UNCHANGED <<phase, auth, sockUser, activeUsers, userSockets, onlinePc, rooms, tasks>>
    /\ UNCHANGED <<nreq, participants, messages, updatedAt, logs>>

Next ==
    \/ \E x \in ConnIds, cred \in Credentials : Connect(x, cred)
    \/ \E x \in ConnIds, ok \in Outcomes : HandshakeDone(x, ok)
    \/ \E x \in ConnIds, ok \in Outcomes : OnlineStatusWrite(x, ok)
    \/ \E x \in ConnIds, c \in Convs : JoinConversation(x, c)
    \/ \E t \in tasks, ok \in Outcomes : JoinCheck(t, ok)
    \/ \E x \in ConnIds, c \in Convs : LeaveConversation(x, c)
    \/ \E x \in ConnIds, c \in Convs, content \in Contents : SendMessage(x, c, content)
    \/ \E t \in tasks, ok \in Outcomes : SendCheck(t, ok)
    \/ \E t \in tasks, ok \in Outcomes : SendInsert(t, ok)
    \/ \E t \in tasks, ok \in Outcomes : SendTouch(t, ok)
    \/ \E x \in ConnIds, c \in Convs : TypingStart(x, c)
    \/ \E x \in ConnIds, c \in Convs : TypingStop(x, c)
    \/ \E x \in ConnIds, s \in Statuses : UpdateStatus(x, s)
    \/ \E t \in tasks, ok \in Outcomes : UpdateStatusDone(t, ok)
    \/ \E c \in Convs, by \in Users, u \in Users, ok \in Outcomes : RemoveParticipant(c, by, u, ok)
    \/ \E x \in ConnIds : Disconnect(x)
    \/ \E x \in ConnIds, ok \in Outcomes : DisconnectStatus(x, ok)

Spec == Init /\ [][Next]_vars

\* ------------------------------------------------------- connection lifecycle
NextConn ==
    \/ \E x \in ConnIds, cred \in Credentials : Connect(x, cred)
    \/ \E x \in ConnIds, ok \in Outcomes : HandshakeDone(x, ok)
    \/ \E x \in ConnIds, ok \in Outcomes : OnlineStatusWrite(x, ok)
    \/ \E x \in ConnIds : Disconnect(x)
    \/ \E x \in ConnIds, ok \in Outcomes : DisconnectStatus(x, ok)

SpecConn == Init /\ [][NextConn]_vars

\* ------------------------------------------------------------ conversations
\* The sockets have connected in the order of their ids, two devices of A and
\* then one of B, and their handshakes and status updates have completed; the
\* first device of A and the device of B have joined conversation c1.
DeviceUser(x) == IF x % 3 = 0 THEN "B" ELSE "A"
DeviceRooms(x) == {UserRoom(DeviceUser(x))} \cup (IF x \in {1, 3} THEN {ConvRoom("c1")} ELSE {})

InitRoom ==
    /\ phase = [x \in ConnIds |-> "live"]
    /\ auth = [x \in ConnIds |-> [kind |-> "token", user |-> DeviceUser(x)]]
    /\ sockUser = [x \in ConnIds |-> DeviceUser(x)]
    /\ activeUsers = [u \in Users |->
                        IF \E x \in ConnIds : DeviceUser(x) = u
                        THEN CHOOSE x \in ConnIds :
                                 /\ DeviceUser(x) = u
                                 /\ \A y \in ConnIds : DeviceUser(y) = u => y <= x
                        ELSE 0]
    /\ userSockets = [x \in ConnIds |-> DeviceUser(x)]
    /\ rooms = [x \in ConnIds |-> DeviceRooms(x)]
    /\ onlinePc = [x \in ConnIds |-> "done"]
    /\ discPc = [x \in ConnIds |-> "idle"]
    /\ tasks = {}
    /\ nreq = 0
    /\ nfail = 0
    /\ participants = {<<"c1", "A">>, <<"c1", "B">>, <<"c2", "A">>}
    /\ messages = <<>>
    /\ updatedAt = [c \in Convs |-> 0]
    /\ userStatus = [u \in Users |-> IF \E x \in ConnIds : DeviceUser(x) = u
                                      THEN "online" ELSE "offline"]
    /\ last = NoStep
    /\ emitted = <<>>
    /\ received = [x \in ConnIds |-> <<>>]

NextRoom ==
    \/ \E x \in ConnIds, c \in Convs : JoinConversation(x, c)
    \/ \E t \in tasks, ok \in Outcomes : JoinCheck(t, ok)
    \/ \E x \in ConnIds, c \in Convs : LeaveConversation(x, c)
    \/ \E x \in ConnIds, c \in Convs, content \in Contents : SendMessage(x, c, content)
    \/ \E t \in tasks, ok \in Outcomes : SendCheck(t, ok)
    \/ \E t \in tasks, ok \in Outcomes : SendInsert(t, ok)
    \/ \E t \in tasks, ok \in Outcomes : SendTouch(t, ok)
    \/ \E x \in ConnIds : Disconnect(x)
    \/ \E x \in ConnIds, ok \in Outcomes : DisconnectStatus(x, ok)

SpecRoom == InitRoom /\ [][NextRoom]_vars

\* ------------------------------------------------------ presence and typing
\* The same sockets as in InitRoom; the events are joins, typing indicators,
\* status updates and disconnects.
NextSignal ==
    \/ \E x \in ConnIds, c \in Convs : JoinConversation(x, c)
    \/ \E t \in tasks, ok \in Outcomes : JoinCheck(t, ok)
    \/ \E x \in ConnIds, c \in Convs : TypingStart(x, c)
    \/ \E x \in ConnIds, c \in Convs : TypingStop(x, c)
    \/ \E x \in ConnIds, s \in Statuses : UpdateStatus(x, s)
    \/ \E t \in tasks, ok \in Outcomes : UpdateStatusDone(t, ok)
    \/ \E x \in ConnIds : Disconnect(x)
    \/ \E x \in ConnIds, ok \in Outcomes : DisconnectStatus(x, ok)

SpecSignal == InitRoom /\ [][NextSignal]_vars

\* --------------------------------------------------- membership after removal
\* The sockets of InitRoom; participants are removed through the REST route
\* while sockets send, type, leave and disconnect.
NextMember ==
    \/ \E c \in Convs, by \in Users, u \in Users, ok \in Outcomes : RemoveParticipant(c, by, u, ok)
    \/ \E x \in ConnIds, c \in Convs : SendMessage(x, c, Str(2))
    \/ \E t \in tasks, ok \in Outcomes : SendCheck(t, ok)
    \/ \E t \in tasks, ok \in Outcomes : SendInsert(t, ok)
    \/ \E t \in tasks, ok \in Outcomes : SendTouch(t, ok)
    \/ \E x \in ConnIds, c \in Convs : TypingStart(x, c)
    \/ \E x \in ConnIds, c \in Convs : LeaveConversation(x, c)
    \/ \E x \in ConnIds : Disconnect(x)
    \/ \E x \in ConnIds, ok \in Outcomes : DisconnectStatus(x, ok)

SpecMember == InitRoom /\ [][NextMember]_vars

\* ------------------------------------------------------------------ preview
\* The string contents of every length up to a few characters past the preview
\* length.
PreviewContents == {Str(n) : n \in 0..(PreviewLen + MaxExtra)}

\* One send_message to c1 has been received from one of the sockets of InitRoom,
\* its participant check and its INSERT have resolved, and it waits for the
\* conversation update.
InitPreview ==
    /\ phase = [x \in ConnIds |-> "live"]
    /\ auth = [x \in ConnIds |-> [kind |-> "token", user |-> DeviceUser(x)]]
    /\ sockUser = [x \in ConnIds |-> DeviceUser(x)]
    /\ activeUsers = [u \in Users |->
                        IF \E x \in ConnIds : DeviceUser(x) = u
                        THEN CHOOSE x \in ConnIds :
                                 /\ DeviceUser(x) = u
                                 /\ \A y \in ConnIds : DeviceUser(y) = u => y <= x
                        ELSE 0]
    /\ userSockets = [x \in ConnIds |-> DeviceUser(x)]
    /\ rooms = [x \in ConnIds |-> DeviceRooms(x)]
    /\ onlinePc = [x \in ConnIds |-> "done"]
    /\ discPc = [x \in ConnIds |-> "idle"]
    /\ nreq = 1
    /\ nfail = 0
    /\ participants = {<<"c1", "A">>, <<"c1", "B">>, <<"c2", "A">>}
    /\ updatedAt = [c \in Convs |-> 0]
    /\ userStatus = [u \in Users |-> IF \E x \in ConnIds : DeviceUser(x) = u
                                      THEN "online" ELSE "offline"]
    /\ last = NoStep
    /\ emitted = <<>>
    /\ received = [x \in ConnIds |-> <<>>]
    /\ \E x \in ConnIds, content \in PreviewContents :
           /\ tasks = {[id |-> 1, kind |-> "send", conn |-> x, conv |-> "c1",
                        content |-> content, status |-> NoStatus, pc |-> "touch",
                        check |-> "found", msg |-> 1, touched |-> FALSE]}
           /\ messages = <<[id |-> 1, conv |-> "c1", sender |-> DeviceUser(x)]>>

NextPreview ==
    \E t \in tasks, ok \in Outcomes : SendTouch(t, ok)

SpecPreview == InitPreview /\ [][NextPreview]_vars

\* ================================================================== claims
\* the emit calls of the last step that carry the event type
OutOf(type) == SelectSeq(last.out, LAMBDA e : e.type = type)

\* the connections subscribed to the room of conversation c
Subscribers(c) == {y \in ConnIds : phase[y] = "live" /\ ConvRoom(c) \in rooms[y]}

\* socket y was sent the room event type of message m
Got(y, type, m) == \E i \in 1..Len(received[y]) : received[y][i] = [type |-> type, msg |-> m]

StoreCalls == {"check", "insert", "touch"}

\* C1: a send_message whose participant check finds no row for the sender never
\* inserts a message nor updates the conversation, reaches no socket with
\* new_message or message_notification, and emits one error event to the sender.
C1_NonParticipantSendWritesNothing ==
    /\ \A t \in tasks : t.kind = "send" => t.check # "none"
    /\ (last.kind = "send" /\ last.check = "none") =>
          /\ last.msg = 0 /\ ~last.touched
          /\ \A i \in 1..Len(messages) : messages[i].id # last.msg
          /\ Len(last.out) = 1
          /\ last.out[1].type = "error" /\ last.out[1].targets = {last.conn}

C1_Witness ==
    /\ last.kind = "send" /\ last.check = "none"
    /\ sockUser[last.conn] = "B" /\ last.conv = "c2"
    /\ Len(OutOf("error")) = 1

\* C2: a send_message one of whose store calls failed emits exactly one error
\* event, to the sending socket, and no new_message or message_notification.
C2_StoreFailureOneErrorNoBroadcast ==
    (last.kind = "send" /\ last.failed \in StoreCalls) =>
        /\ Len(OutOf("error")) = 1
        /\ OutOf("error")[1].targets = {last.conn}
        /\ Len(OutOf("new_message")) = 0 /\ Len(OutOf("message_notification")) = 0
        /\ \A y \in ConnIds, type \in RoomEvents :
               last.msg # 0 => ~Got(y, type, last.msg)

C2_Witness ==
    /\ last.kind = "send" /\ last.failed = "touch"
    /\ last.msg # 0 /\ Subscribers(last.conv) # {}

\* C3: the new_message of a send_message that reached its broadcast goes to exactly
\* the connections subscribed to the conversation's room at that moment, the sender
\* included when it is subscribed.
C3_NewMessageToExactlySubscribers ==
    (last.kind = "send" /\ last.touched) =>
        /\ Len(OutOf("new_message")) = 1
        /\ OutOf("new_message")[1].targets = Subscribers(last.conv)
        /\ \A y \in ConnIds :
               Got(y, "new_message", last.msg) <=> y \in Subscribers(last.conv)

C3_Witness ==
    /\ last.kind = "send" /\ last.touched
    /\ last.conn \in Subscribers(last.conv)
    /\ Got(last.conn, "new_message", last.msg)
    /\ \E y \in Subscribers(last.conv) : y # last.conn
    /\ \E y \in Live : y \notin Subscribers(last.conv)

\* C4: the message_notification of a successful send_message goes to every
\* connection subscribed to the room except the sending connection itself; other
\* subscribed connections of the sender's user do get it.
C4_NotificationToAllButSendingSocket ==
    (last.kind = "send" /\ last.failed = "none" /\ last.touched) =>
        /\ Len(OutOf("message_notification")) = 1
        /\ OutOf("message_notification")[1].targets = Subscribers(last.conv) \ {last.conn}
        /\ \A y \in ConnIds :
               Got(y, "message_notification", last.msg)
                   <=> y \in Subscribers(last.conv) \ {last.conn}

C4_Witness ==
    /\ last.kind = "send" /\ last.failed = "none" /\ last.touched
    /\ last.conn \in Subscribers(last.conv)
    /\ ~Got(last.conn, "message_notification", last.msg)
    /\ \E y \in Subscribers(last.conv) :
           /\ y # last.conn /\ sockUser[y] = sockUser[last.conn]
           /\ Got(y, "message_notification", last.msg)

\* C5: isUserOnline(U) is true exactly when U has a live connection.
C5_OnlineIffLiveConnection ==
    \A u \in Users : isUserOnline(u) <=> (\E x \in Live : sockUser[x] = u)

\* C6: the offline presence event of a user is emitted only when the user has
\* no live connection left.
C6_OfflineOnlyAfterLastDisconnect ==
    \A i \in 1..Len(OutOf("user_status_changed")) :
        LET e == OutOf("user_status_changed")[i]
        IN  e.body = "offline" => ~(\E x \in Live : sockUser[x] = e.user)

\* C7: a connection that has disconnected and has no handler in flight is in
\* no conversation room.
C7_NoRoomAfterDisconnect ==
    \A x \in ConnIds :
        (/\ phase[x] = "closed" /\ discPc[x] = "done"
         /\ \A t \in tasks : t.conn # x)
            => rooms[x] = {}

C9_Step ==
    /\ \A x \in ConnIds, c \in Convs :
           (ConvRoom(c) \in rooms'[x] /\ ConvRoom(c) \notin rooms[x]) =>
               /\ last'.kind = "join" /\ last'.conn = x /\ last'.conv = c
               /\ last'.check = "found"
               /\ <<c, sockUser[x]>> \in participants
    /\ last'.kind = "join" =>
           /\ Len(last'.out) = 1
           /\ last'.out[1].targets = {last'.conn}
           /\ IF last'.check = "found"
              THEN last'.out[1].type = "conversation_joined"
              ELSE last'.out[1].type = "error" /\ rooms' = rooms

C9_JoinOnlyForConfirmedParticipant == [][C9_Step]_vars

C9_Witness ==
    /\ last.kind = "join" /\ last.check = "none"
    /\ ConvRoom(last.conv) \notin rooms[last.conn]
    /\ phase[last.conn] = "live"

\* C10: a socket whose token is missing, invalid or names no user never gets
\* past the middleware: it is never connected, never in activeUsers or
\* userSockets, in no room, and no handler of it ever runs.
BadCredential(cred) ==
    cred.kind \in {"none", "bad"} \/ (cred.kind = "token" /\ cred.user \notin Users)

C10_BadCredentialNeverConnected ==
    \A x \in ConnIds :
        BadCredential(auth[x]) =>
            /\ phase[x] \in {"handshake", "rejected"}
            /\ sockUser[x] = NoUser /\ userSockets[x] = NoUser
            /\ \A u \in Users : activeUsers[u] # x
            /\ rooms[x] = {}
            /\ onlinePc[x] = "idle" /\ discPc[x] = "idle"
            /\ \A t \in tasks : t.conn # x

C10_Witness ==
    /\ \E x \in ConnIds : auth[x].kind = "none" /\ phase[x] = "rejected"
    /\ \E x \in ConnIds : auth[x].kind = "bad" /\ phase[x] = "rejected"
    /\ \E x \in ConnIds : auth[x].user = Ghost /\ phase[x] = "rejected"

\* C11: every send_message ends either in one error event to the sending socket
\* and no new_message or message_notification to anybody, or in a broadcast and
\* no error event, whatever the payload.
C11_ErrorOrBroadcastNeverBoth ==
    last.kind = "send" =>
        \/ /\ Len(OutOf("error")) = 1
           /\ OutOf("error")[1].targets = {last.conn}
           /\ Len(OutOf("new_message")) = 0 /\ Len(OutOf("message_notification")) = 0
           /\ \A y \in ConnIds, type \in RoomEvents : last.msg # 0 => ~Got(y, type, last.msg)
        \/ /\ Len(OutOf("error")) = 0
           /\ Len(OutOf("new_message")) = 1

\* the store calls of all the handlers
HandlerStoreCalls == StoreCalls \cup {"status"}

\* C12: a handler step in which a store call failed emits one error event to
\* the socket of the handler, leaves every socket connected, and ends the
\* handler without a second attempt of the call.
C12_Step ==
    last'.failed \in HandlerStoreCalls =>
        /\ last'.kind \in {"join", "send", "status", "disconnect"}
        /\ Len(last'.out) = 1
        /\ last'.out[1].type = "error" /\ last'.out[1].targets = {last'.conn}
        /\ phase' = phase
        /\ nfail' = nfail + 1
        /\ \A t \in tasks' : t.id # last'.id

C12_StoreErrorSurfacedAsError == [][C12_Step]_vars

\* C13: every new_message sent to a socket is of a message that is a row of
\* messages with the same id, conversation and sender, in a conversation whose
\* timestamp update succeeded; no send_message still waiting for a store call
\* has had its message broadcast.
C13_BroadcastAfterBothWrites ==
    /\ \A k \in 1..Len(emitted) :
           /\ emitted[k].msg \in 1..Len(messages)
           /\ updatedAt[messages[emitted[k].msg].conv] >= 1
           /\ \A t \in tasks : t.msg # emitted[k].msg
    /\ \A y \in ConnIds : \A i \in 1..Len(received[y]) :
           \E k \in 1..Len(emitted) : emitted[k] = received[y][i]
    /\ \A i \in 1..Len(OutOf("new_message")) :
           LET e == OutOf("new_message")[i]
           IN  /\ last.touched
               /\ e.msg \in 1..Len(messages)
               /\ messages[e.msg] = [id |-> e.msg, conv |-> e.conv, sender |-> e.user]
               /\ e.conv = last.conv /\ e.user = sockUser[last.conn]

C13_Witness ==
    /\ last.kind = "send" /\ last.touched
    /\ \E y \in ConnIds : y # last.conn /\ Got(y, "new_message", last.msg)
    /\ messages[last.msg].sender = sockUser[last.conn]
    /\ updatedAt[last.conv] = 1

\* the online presence events of user u among the emit calls out
OnlineEvents(out, u) ==
    SelectSeq(out, LAMBDA e : e.type = "user_status_changed" /\ e.user = u /\ e.body = "online")

\* C14: the step in which a socket becomes connected emits one online presence
\* event of its user to every connected socket when the user had no connected
\* socket before, and no online event when the user had one.
C14_Step ==
    \A x \in ConnIds :
        (phase[x] # "live" /\ phase'[x] = "live") =>
            IF \E y \in Live : sockUser[y] = sockUser'[x]
            THEN Len(OnlineEvents(last'.out, sockUser'[x])) = 0
            ELSE /\ Len(OnlineEvents(last'.out, sockUser'[x])) = 1
                 /\ OnlineEvents(last'.out, sockUser'[x])[1].targets = Live'

C14_OnlineEventOnFirstConnection == [][C14_Step]_vars

\* C15: the step that completes an update_status(s) either has written s as the
\* status of the socket's user and emits one user_status_changed of that user
\* and status to every connected socket, the requesting one included, or, when
\* the write failed, leaves the status as it was and emits nothing; nothing is
\* emitted while the write is in flight.
C15_Step ==
    /\ last'.kind = "status" =>
           LET u == sockUser[last'.conn]
           IN  IF last'.failed = "none"
               THEN /\ userStatus' = [userStatus EXCEPT ![u] = last'.status]
                    /\ last'.out = <<Emission("user_status_changed", Live, NoConv, 0, u,
                                              last'.status)>>
               ELSE /\ userStatus' = userStatus
                    /\ last'.out = <<>>
    /\ (\E t \in tasks' \ tasks : t.kind = "status") => last'.out = <<>> /\ userStatus' = userStatus

C15_StatusPersistedThenAnnounced == [][C15_Step]_vars

C15_Witness ==
    /\ last.kind = "status" /\ last.failed = "none"
    /\ userStatus[sockUser[last.conn]] = last.status
    /\ last.conn \in last.out[1].targets
    /\ \E y \in last.out[1].targets :
           sockUser[y] # sockUser[last.conn] /\ rooms[y] \cap rooms[last.conn] = {}

\* C16: a typing_start or typing_stop of socket X for conversation C makes one
\* emit, user_typing or user_stopped_typing, to the connections subscribed to
\* the room of C other than X, and calls the store for nothing, whether or not
\* the user of X is a participant of C and whether or not X joined the room.
C16_Step ==
    last'.kind \in {"typing_start", "typing_stop"} =>
        /\ last'.out =
              <<Emission(IF last'.kind = "typing_start" THEN "user_typing"
                         ELSE "user_stopped_typing",
                         Subscribers(last'.conv) \ {last'.conn}, last'.conv, 0,
                         sockUser[last'.conn], NoContent)>>
        /\ store' = store /\ nfail' = nfail
        /\ tasks' = tasks /\ rooms' = rooms

C16_TypingToOtherSubscribersUnchecked == [][C16_Step]_vars

C16_Witness ==
    /\ last.kind \in {"typing_start", "typing_stop"}
    /\ <<last.conv, sockUser[last.conn]>> \notin participants
    /\ ConvRoom(last.conv) \notin rooms[last.conn]
    /\ last.out[1].targets # {}
    /\ last.conn \notin last.out[1].targets

\* C17: a send_message in flight leaves the set of running handlers only by
\* running its own steps, also after its socket closed; with the socket closed
\* and the store calls succeeding, the check of a participant goes on to the
\* insert, the insert adds the row, and the last step updates the conversation
\* and emits new_message to the connections subscribed to the room at that time.
C17_Step ==
    /\ \A t \in tasks :
           t.kind = "send" => (\E d \in tasks' : d.id = t.id) \/ last'.id = t.id
    /\ \A t \in tasks \ tasks' :
           (t.kind = "send" /\ phase[t.conn] = "closed" /\ nfail' = nfail) =>
               \/ /\ t.pc = "check"
                  /\ IF <<t.conv, sockUser[t.conn]>> \in participants
                     THEN \E d \in tasks' : d.id = t.id /\ d.pc = "insert"
                     ELSE last'.id = t.id /\ last'.check = "none"
               \/ /\ t.pc = "insert"
                  /\ messages' = Append(messages, [id |-> Len(messages) + 1, conv |-> t.conv,
                                                   sender |-> sockUser[t.conn]])
                  /\ \E d \in tasks' : d.id = t.id /\ d.pc = "touch" /\ d.msg = Len(messages')
               \/ /\ t.pc = "touch"
                  /\ last'.id = t.id /\ last'.touched
                  /\ updatedAt' = [updatedAt EXCEPT ![t.conv] = @ + 1]
                  /\ \E i \in 1..Len(last'.out) :
                         /\ last'.out[i].type = "new_message"
                         /\ last'.out[i].msg = t.msg
                         /\ last'.out[i].targets = Subscribers(t.conv)
                  /\ \A y \in Subscribers(t.conv) :
                         received'[y] # received[y] /\ received'[y][Len(received[y]) + 1] =
                             [type |-> "new_message", msg |-> t.msg]

C17_SendSurvivesDisconnect == [][C17_Step]_vars

C17_Witness ==
    /\ last.kind = "send" /\ last.touched
    /\ phase[last.conn] = "closed"
    /\ last.msg \in 1..Len(messages) /\ updatedAt[last.conv] = 1
    /\ \E y \in Live : Got(y, "new_message", last.msg)

\* C18: when a send_message of a subscribed socket succeeds, every other
\* subscribed socket of the sender's user is sent new_message and is not sent
\* message_notification.
C18_OtherDeviceGetsNoNotification ==
    (last.kind = "send" /\ last.failed = "none" /\ last.touched
     /\ last.conn \in Subscribers(last.conv)) =>
        \A y \in Subscribers(last.conv) :
            (y # last.conn /\ sockUser[y] = sockUser[last.conn]) =>
                /\ Got(y, "new_message", last.msg)
                /\ ~Got(y, "message_notification", last.msg)

\* C19: a leave_conversation of socket X for conversation C removes the room
\* of C from the rooms of X and nothing else: the other rooms of X and the rooms
\* of every other socket stay, nothing changes when X was not in the room, no
\* socket is closed, the store is not called, and the one emit is
\* conversation_left to X.
C19_Step ==
    last'.kind = "leave" =>
        LET x == last'.conn
            c == last'.conv
        IN  /\ rooms'[x] = rooms[x] \ {ConvRoom(c)}
            /\ \A y \in ConnIds \ {x} : rooms'[y] = rooms[y]
            /\ ConvRoom(c) \notin rooms[x] => rooms' = rooms
            /\ {y \in ConnIds : phase'[y] = "live" /\ ConvRoom(c) \in rooms'[y]}
                   = Subscribers(c) \ {x}
            /\ last'.out = <<Emission("conversation_left", {x}, c, 0, NoUser, NoContent)>>
            /\ phase' = phase /\ tasks' = tasks
            /\ store' = store /\ nfail' = nfail /\ logs' = logs

C20_RoomEventAtMostOnce ==
    /\ \A y \in ConnIds : \A i, j \in 1..Len(received[y]) :
           i < j => received[y][i] # received[y][j]
    /\ \A i \in 1..Len(RoomEmits(last.out)) :
           LET e == RoomEmits(last.out)[i]
           IN  \A y \in ConnIds :
                   y \in e.targets <=>
                       /\ y \in Subscribers(e.conv)
                       /\ e.type = "message_notification" => y # last.conn

C20_Witness ==
    /\ last.kind = "send" /\ last.touched
    /\ \E t \in tasks :
           /\ t.kind = "join" /\ t.conv = last.conv
           /\ <<t.conv, sockUser[t.conn]>> \in participants
           /\ t.conn \notin Subscribers(t.conv)
           /\ ~Got(t.conn, "new_message", last.msg)
    /\ \E y \in Live : y # last.conn /\ Got(y, "new_message", last.msg)

\* C21: a send_message of a connected socket that is not in the room of the
\* conversation, by a participant, is persisted and its new_message goes to the
\* connections subscribed to the room; the sending socket is sent neither
\* new_message nor message_notification.
C21_SendWithoutJoin ==
    (last.kind = "send" /\ last.check = "found" /\ last.failed \notin StoreCalls
     /\ last.conn \notin Subscribers(last.conv)) =>
        /\ last.touched
        /\ last.msg \in 1..Len(messages)
        /\ messages[last.msg] = [id |-> last.msg, conv |-> last.conv,
                                 sender |-> sockUser[last.conn]]
        /\ Len(OutOf("new_message")) = 1
        /\ OutOf("new_message")[1].targets = Subscribers(last.conv)
        /\ \A y \in Subscribers(last.conv) : Got(y, "new_message", last.msg)
        /\ \A type \in RoomEvents : ~Got(last.conn, type, last.msg)
        /\ \A i \in 1..Len(last.out) :
               last.out[i].type \in RoomEvents => last.conn \notin last.out[i].targets

C21_Witness ==
    /\ last.kind = "send" /\ last.touched /\ last.failed = "none"
    /\ phase[last.conn] = "live"
    /\ <<last.conv, sockUser[last.conn]>> \in participants
    /\ last.conn \notin Subscribers(last.conv)
    /\ \E y \in Subscribers(last.conv) : Got(y, "message_notification", last.msg)
    /\ ~Got(last.conn, "new_message", last.msg)

\* the new_message emits of conversation c, as positions of emitted
NewMessageEmits(c) ==
    {k \in 1..Len(emitted) :
        /\ emitted[k].type = "new_message"
        /\ emitted[k].msg \in 1..Len(messages)
        /\ messages[emitted[k].msg].conv = c}

\* C24: the new_message events of one conversation are emitted in the order in
\* which their messages were inserted (ascending id).
C24_BroadcastInInsertOrder ==
    \A c \in Convs : \A k, l \in NewMessageEmits(c) :
        k < l => emitted[k].msg < emitted[l].msg

\* no connection handler and no disconnect handler is waiting for the store
LifecycleQuiet ==
    \A x \in ConnIds : phase[x] # "handshake" /\ onlinePc[x] # "pending" /\ discPc[x] # "status"

\* C26: when no store call has failed and every connect and disconnect handler
\* has completed, the persisted status of a user is 'online' if the user has a
\* connected socket and 'offline' otherwise.
C26_PersistedStatusMatchesConnections ==
    (nfail = 0 /\ LifecycleQuiet) =>
        \A u \in Users :
            userStatus[u] = IF \E x \in Live : sockUser[x] = u THEN "online" ELSE "offline"

\* C28: every message_notification a socket is sent comes right after the
\* new_message of the same message, and in the order of the emit calls every
\* message_notification comes right after the new_message of its message.
C28_NotificationRightAfterNewMessage ==
    /\ \A y \in ConnIds : \A j \in 1..Len(received[y]) :
           received[y][j].type = "message_notification" =>
               /\ j > 1
               /\ received[y][j - 1] = [type |-> "new_message", msg |-> received[y][j].msg]
    /\ \A l \in 1..Len(emitted) :
           emitted[l].type = "message_notification" =>
               /\ l > 1
               /\ emitted[l - 1] = [type |-> "new_message", msg |-> emitted[l].msg]

C28_Witness ==
    \E y \in ConnIds : \E j \in 1..Len(received[y]) :
        /\ j > 2
        /\ received[y][j].type = "message_notification"
        /\ received[y][j - 1].type = "new_message"
        /\ received[y][j - 2].msg # received[y][j].msg

\* C30: an entry of activeUsers holds the id of a connected socket whose user
\* is the key and that userSockets maps to that user.
C30_ActiveUsersEntryIsLiveAndOwned ==
    \A u \in Users :
        activeUsers[u] # 0 =>
            /\ activeUsers[u] \in Live
            /\ sockUser[activeUsers[u]] = u
            /\ userSockets[activeUsers[u]] = u

C30_Witness ==
    \E u \in Users :
        /\ activeUsers[u] \in Live
        /\ \E y \in ConnIds : phase[y] = "closed" /\ sockUser[y] = u /\ discPc[y] = "done"

\* C23: the preview of the message_notification of a string content is the
\* first min(50, length) characters of the content: a prefix, at most 50
\* characters long, and the content itself when that has at most 50 characters.
C23_PreviewIsPrefixOfAtMost50 ==
    \A i \in 1..Len(OutOf("message_notification")) :
        LET p == OutOf("message_notification")[i].body
            s == last.content
        IN  /\ s.isString /\ p.isString
            /\ Len(p.chars) = (IF Len(s.chars) < 50 THEN Len(s.chars) ELSE 50)
            /\ Len(p.chars) <= 50
            /\ \A k \in 1..Len(p.chars) : p.chars[k] = s.chars[k]
            /\ Len(s.chars) <= 50 => p = s

C23_Witness ==
    /\ Len(OutOf("message_notification")) = 1
    /\ Len(last.content.chars) > 50
    /\ Len(OutOf("message_notification")[1].body.chars) = 50
    /\ OutOf("message_notification")[1].targets # {}

\* C29: the step that receives an update_status and the step that completes it
\* change neither activeUsers nor userSockets nor the rooms of any socket nor
\* the set of connected sockets; of the store the completing step changes the
\* status of the socket's user and nothing else, so isUserOnline of that user
\* is what it was.
C29_Step ==
    (last'.kind = "status" \/ \E t \in tasks' \ tasks : t.kind = "status") =>
        /\ activeUsers' = activeUsers /\ userSockets' = userSockets
        /\ rooms' = rooms /\ phase' = phase /\ sockUser' = sockUser
        /\ participants' = participants /\ messages' = messages /\ updatedAt' = updatedAt
        /\ logs' = logs
        /\ \A u \in Users :
               /\ isUserOnline(u)' = isUserOnline(u)
               /\ (last'.kind # "status" \/ u # sockUser[last'.conn]) =>
                      userStatus'[u] = userStatus[u]

C29_UpdateStatusFrame == [][C29_Step]_vars

C29_Witness ==
    /\ last.kind = "status" /\ last.failed = "none" /\ last.status = "offline"
    /\ phase[last.conn] = "live"
    /\ isUserOnline(sockUser[last.conn])
    /\ userStatus[sockUser[last.conn]] = "offline"
    /\ last.out[1].body = "offline"

\* how many times socket y was sent new_message of message m, after the step
TimesSent(y, m) ==
    Cardinality({i \in 1..Len(received'[y]) :
                    received'[y][i] = [type |-> "new_message", msg |-> m]})

\* C27: a successful join_conversation adds the room to the rooms of the socket
\* and changes nothing when the socket is in the room already; a
\* leave_conversation leaves the socket out of the room however many joins
\* preceded it; and every socket a new_message is emitted to has been sent it
\* exactly once.
C27_Step ==
    /\ (last'.kind = "join" /\ last'.check = "found") =>
           /\ rooms'[last'.conn] = rooms[last'.conn] \cup {ConvRoom(last'.conv)}
           /\ ConvRoom(last'.conv) \in rooms[last'.conn] => rooms' = rooms
    /\ last'.kind = "leave" => ConvRoom(last'.conv) \notin rooms'[last'.conn]
    /\ \A i \in 1..Len(last'.out) :
           last'.out[i].type = "new_message" =>
               \A y \in last'.out[i].targets : TimesSent(y, last'.out[i].msg) = 1

C27_JoinIdempotentLeaveNotCounted == [][C27_Step]_vars

C27_Witness ==
    /\ last.kind = "join" /\ last.check = "found"
    /\ last.conn = 1 /\ last.conv = "c1" /\ nreq = 1
    /\ phase[1] = "live"
    /\ rooms[1] = DeviceRooms(1)

\* C25: when the step after a leave_conversation(C) of socket X completes a
\* join_conversation(C) of X that was waiting during the leave, with no request
\* received in between and no other handler of X left waiting, X is not in the
\* room of C: the leave, received last, decides.
C25_Step ==
    \A t \in tasks \ tasks' :
        (/\ t.kind = "join"
         /\ last.kind = "leave" /\ last.conn = t.conn /\ last.conv = t.conv
         /\ nreq' = nreq
         /\ phase'[t.conn] = "live"
         /\ \A d \in tasks' : d.conn # t.conn)
            => ConvRoom(t.conv) \notin rooms'[t.conn]

C25_LastLeaveWins == [][C25_Step]_vars

\* the events emitted to the room of a conversation
ConversationEvents == RoomEvents \cup {"user_typing", "user_stopped_typing"}

\* C22: the removal of a participant in the store changes no room and emits
\* nothing; every event emitted to the room of a conversation goes to all the
\* connections subscribed to it (the emitting one excepted for all but
\* new_message), participants or not; a socket is taken out of a room only by
\* its own leave_conversation or its disconnect; and a send_message whose
\* participant check runs when the sender is no participant is rejected with an
\* error and inserts nothing.
C22_Step ==
    /\ participants' # participants =>
           /\ rooms' = rooms /\ phase' = phase /\ tasks' = tasks
           /\ last'.out = <<>> /\ logs' = logs
    /\ \A i \in 1..Len(last'.out) :
           last'.out[i].type \in ConversationEvents =>
               last'.out[i].targets =
                   Subscribers(last'.out[i].conv)
                       \ (IF last'.out[i].type = "new_message" THEN {} ELSE {last'.conn})
    /\ \A y \in ConnIds, c \in Convs :
           (ConvRoom(c) \in rooms[y] /\ ConvRoom(c) \notin rooms'[y]) =>
               \/ last'.kind = "leave" /\ last'.conn = y /\ last'.conv = c
               \/ phase[y] = "live" /\ phase'[y] = "closed"
    /\ \A t \in tasks \ tasks' :
           (t.kind = "send" /\ t.pc = "check"
            /\ <<t.conv, sockUser[t.conn]>> \notin participants) =>
               /\ last'.id = t.id
               /\ Len(last'.out) = 1
               /\ last'.out[1].type = "error" /\ last'.out[1].targets = {t.conn}
               /\ messages' = messages /\ updatedAt' = updatedAt /\ logs' = logs
               /\ \A d \in tasks' : d.id # t.id

C22_SubscriptionOutlivesMembership == [][C22_Step]_vars

C22_Witness ==
    /\ last.kind = "send" /\ last.touched /\ last.failed = "none"
    /\ \E y \in Subscribers(last.conv) :
           /\ <<last.conv, sockUser[y]>> \notin participants
           /\ Got(y, "new_message", last.msg)
           /\ Got(y, "message_notification", last.msg)
====
